---- MODULE Spec2Model ----
(***************************************************************************)
(* Key-value capability of spiderlightning (crates/keyvalue/src/lib.rs).   *)
(*                                                                         *)
(* The file holds two skeletons of the same capability:                    *)
(*   - the implementation of the generated keyvalue::Keyvalue trait        *)
(*     (Keyvalue::keyvalue_open / _get / _set / _keys / _delete), which    *)
(*     resolves a name through the capability store and forwards to a      *)
(*     backend implementor held in an Arc;                                 *)
(*   - the free functions keyvalue_open / _set / _get / _keys / _delete    *)
(*     that wit_runtime!(export(wasmedge_keyvalue ...)) exports and that   *)
(*     WasmedgeLinkable::add_to_linker registers with the WasmEdge VM.     *)
(* The variable surface says which of the two a run calls into.            *)
(*                                                                         *)
(* Every handler touches shared state at one point only (the single        *)
(* backend call, or the read of the capability store), so each handler is  *)
(* one atomic action; concurrent callers are the interleavings of actions. *)
(***************************************************************************)
EXTENDS Integers, Sequences, FiniteSets, TLC

\* Bound on the number of handles the resource table of one run hands out.
MaxHandles == 3

\* Logical names a guest passes to open.
Names == {"mystore", "bad", "ghost"}

\* Keys and byte values a guest passes to get / set / delete.
Keys == {"a", "key1"}
Values == {<<1>>, <<9>>}

\* slight_file::Resource values that occur in the modelled configurations.
Resources ==
    {"Keyvalue(Filesystem)", "Keyvalue(V1Filesystem)", "Keyvalue(Azblob)",
     "Keyvalue(V1Azblob)", "Keyvalue(AwsDynamoDb)", "Keyvalue(V1AwsDynamoDb)",
     "Keyvalue(Redis)", "Keyvalue(V1Redis)", "Messaging(Azsbus)"}

\* Cargo features of the keyvalue crate that gate the match arms.
EnabledFeatures == {"filesystem", "azblob", "awsdynamodb", "redis"}

VARIABLES
    surface,           \* "wasmtime": trait impl; "wasmedge": exported free functions
    implementor,       \* Keyvalue.implementor : Resource
    capability_store,  \* Keyvalue.capability_store : (name, kind) -> BasicState
    handles,           \* resource table: handle -> KeyvalueInner
    backing,           \* backend data, per name the implementor was constructed with
    crashed,           \* the process has panicked
    issued,            \* handle values returned to the guest so far
    hist,              \* per target and key: the last successful set / delete
    dels,              \* targets on which some delete has succeeded
    last               \* the last completed call and what it returned

vars == <<surface, implementor, capability_store, handles, backing, crashed,
          issued, hist, dels, last>>

----
\* Result values returned to the guest.

NoKeys == <<>>
NoBytes == <<>>

Res(tag, val, keys, h) == [tag |-> tag, val |-> val, keys |-> keys, h |-> h]
OkUnit == Res("ok", NoBytes, NoKeys, 0)
OkBytes(v) == Res("ok", v, NoKeys, 0)
OkKeys(ks) == Res("ok", NoBytes, ks, 0)
OkHandle(h) == Res("ok", NoBytes, NoKeys, h)
Err(tag) == Res(tag, NoBytes, NoKeys, 0)

EmptyMap == [k \in {} |-> NoBytes]

\* Outcomes of the backend calls one handler may make: the first call
\* succeeds or fails; a repeated call would succeed.
Outcomes == {<<TRUE, TRUE>>, <<FALSE, TRUE>>}

\* All orders in which a backend may list a set of keys.
Orderings(S) ==
    {q \in [1..Cardinality(S) -> S] : \A i, j \in 1..Cardinality(S) : i # j => q[i] # q[j]}

Range(q) == {q[i] : i \in 1..Len(q)}

----
\* slight_file (not part of the keyvalue crate's lib.rs).

\* Display of Resource: the provider-identity string.
ResourceToString(r) ==
    CASE r = "Keyvalue(Filesystem)" -> "keyvalue.filesystem"
      [] r = "Keyvalue(V1Filesystem)" -> "kv.filesystem"
      [] r = "Keyvalue(Azblob)" -> "keyvalue.azblob"
      [] r = "Keyvalue(V1Azblob)" -> "kv.azblob"
      [] r = "Keyvalue(AwsDynamoDb)" -> "keyvalue.awsdynamodb"
      [] r = "Keyvalue(V1AwsDynamoDb)" -> "kv.awsdynamodb"
      [] r = "Keyvalue(Redis)" -> "keyvalue.redis"
      [] r = "Keyvalue(V1Redis)" -> "kv.redis"
      [] OTHER -> "messaging.azsbus"

\* CapabilityStore::get(name, kind): the entry under (name, kind), if any.
StoreHas(store, name, kind) == <<name, kind>> \in DOMAIN store
StoreGet(store, name, kind) == store[<<name, kind>>]

BasicState(r) == [implementor |-> r]

----
\* Backend implementors (mod implementors, not part of lib.rs): the fixed
\* asynchronous interface each provider satisfies.  ok is the outcome of the
\* backend's I/O.

Implementor_get(m, key, ok) ==
    IF ~ok THEN Err("BackendError")
    ELSE IF key \in DOMAIN m THEN OkBytes(m[key]) ELSE Err("NotFound")

Implementor_set(m, key, value, ok) ==
    IF ~ok THEN [res |-> Err("BackendError"), m |-> m]
    ELSE [res |-> OkUnit,
          m |-> [k \in DOMAIN m \cup {key} |-> IF k = key THEN value ELSE m[k]]]

Implementor_keys(m, order, ok) ==
    IF ~ok THEN Err("BackendError") ELSE OkKeys(order)

Implementor_delete(m, key, ok) ==
    IF ~ok THEN [res |-> Err("BackendError"), m |-> m]
    ELSE [res |-> OkUnit, m |-> [k \in DOMAIN m \ {key} |-> m[k]]]

\* <Provider>Implementor::new(slight_state, name): the implementor bound to
\* the data stored under name, or a failure of its I/O.
Implementor_new(kind, state, name, ok) ==
    [failed |-> ~ok, kind |-> kind, name |-> name]

----
\* impl From<Resource> for KeyvalueImplementors

KeyvalueImplementors_from(s) ==
    CASE s \in {"Keyvalue(Filesystem)", "Keyvalue(V1Filesystem)"}
            /\ "filesystem" \in EnabledFeatures -> "Filesystem"
      [] s \in {"Keyvalue(Azblob)", "Keyvalue(V1Azblob)"}
            /\ "azblob" \in EnabledFeatures -> "AzBlob"
      [] s \in {"Keyvalue(AwsDynamoDb)", "Keyvalue(V1AwsDynamoDb)"}
            /\ "awsdynamodb" \in EnabledFeatures -> "AwsDynamoDb"
      [] s \in {"Keyvalue(Redis)", "Keyvalue(V1Redis)"}
            /\ "redis" \in EnabledFeatures -> "Redis"
      [] OTHER -> "panic"

\* KeyvalueInner::new: Arc::new(<Provider>Implementor::new(state, name).await).
\* It returns Self, so a constructor that fails can only unwind; every call
\* allocates a new Arc (instance inst).
KeyvalueInner_new(kind, state, name, inst, ok) ==
    LET i == Implementor_new(kind, state, name, ok)
    IN  IF i.failed
        THEN [panicked |-> TRUE,
              inner |-> [keyvalue_implementor |-> 0, kind |-> kind, name |-> name]]
        ELSE [panicked |-> FALSE,
              inner |-> [keyvalue_implementor |-> inst, kind |-> i.kind, name |-> i.name]]

----
\* impl keyvalue::Keyvalue for Keyvalue

\* The if-let chain of keyvalue_open: the entry under (name, "keyvalue"),
\* else the entry under (implementor.to_string(), "keyvalue"), else none.
Lookup_fallback_first(store, name, s) ==
    IF StoreHas(store, s, "keyvalue")
    THEN [found |-> TRUE, key |-> s, state |-> StoreGet(store, s, "keyvalue"),
          consulted |-> <<s>>]
    ELSE IF StoreHas(store, name, "keyvalue")
    THEN [found |-> TRUE, key |-> name, state |-> StoreGet(store, name, "keyvalue"),
          consulted |-> <<s, name>>]
    ELSE [found |-> FALSE, key |-> "", state |-> BasicState("Messaging(Azsbus)"),
          consulted |-> <<s, name>>]

Lookup(store, name, s) ==
    IF StoreHas(store, name, "keyvalue")
    THEN [found |-> TRUE, key |-> name, state |-> StoreGet(store, name, "keyvalue"),
          consulted |-> <<name>>]
    ELSE IF StoreHas(store, s, "keyvalue")
    THEN [found |-> TRUE, key |-> s, state |-> StoreGet(store, s, "keyvalue"),
          consulted |-> <<name, s>>]
    ELSE [found |-> FALSE, key |-> "", state |-> BasicState("Messaging(Azsbus)"),
          consulted |-> <<name, s>>]

\* The capability store after keyvalue_open: get borrows, the entry is
\* cloned, nothing is written back.
StoreAfterOpen_memoize(store, name, s) ==
    IF ~StoreHas(store, name, "keyvalue") /\ StoreHas(store, s, "keyvalue")
    THEN [p \in DOMAIN store \cup {<<name, "keyvalue">>} |->
            IF p = <<name, "keyvalue">> THEN store[<<s, "keyvalue">>] ELSE store[p]]
    ELSE store

StoreAfterOpen(store, name, s) == store

\* keyvalue_open: outcome "ok" with the new KeyvalueInner, or "panic".
keyvalue_open(store, impl, name, inst, ok) ==
    LET s == ResourceToString(impl)
        l == Lookup(store, name, s)
        kind == KeyvalueImplementors_from(l.state.implementor)
        n == KeyvalueInner_new(kind, l.state, name, inst, ok)
        base == [lookups |-> Len(l.consulted), consulted |-> l.consulted,
                 usedKey |-> l.key, cfail |-> FALSE, inner |-> n.inner,
                 outcome |-> "panic"]
    IN  IF ~l.found THEN base
        ELSE IF kind = "panic" THEN base
        ELSE IF n.panicked THEN [base EXCEPT !.cfail = TRUE]
        ELSE [base EXCEPT !.outcome = "ok"]

\* keyvalue_get: Ok(self_.keyvalue_implementor.get(key).await?)
\* oks[i] is the outcome of the i-th backend call the handler makes.
keyvalue_get_retry(m, key, oks) ==
    IF oks[1] THEN [res |-> Implementor_get(m, key, TRUE), calls |-> 1, lookups |-> 0]
    ELSE [res |-> Implementor_get(m, key, oks[2]), calls |-> 2, lookups |-> 0]

keyvalue_get_const(m, key, oks) ==
    [res |-> OkBytes(<<1>>), calls |-> 1, lookups |-> 0]

keyvalue_get(m, key, oks) ==
    [res |-> Implementor_get(m, key, oks[1]), calls |-> 1, lookups |-> 0]

\* keyvalue_set: self_.keyvalue_implementor.set(key, value).await?; Ok(())
keyvalue_set(m, key, value, oks) ==
    LET r == Implementor_set(m, key, value, oks[1])
    IN  [res |-> r.res, m |-> r.m, calls |-> 1, lookups |-> 0]

\* keyvalue_keys: Ok(self_.keyvalue_implementor.keys().await?)
keyvalue_keys(m, order, oks) ==
    [res |-> Implementor_keys(m, order, oks[1]), calls |-> 1, lookups |-> 0]

\* keyvalue_delete: self_.keyvalue_implementor.delete(key).await?; Ok(())
keyvalue_delete(m, key, oks) ==
    LET r == Implementor_delete(m, key, oks[1])
    IN  [res |-> r.res, m |-> r.m, calls |-> 1, lookups |-> 0]

----
\* The free functions exported through wit_runtime! (println! and return).

stub_keyvalue_open(name) == OkHandle(1)
stub_keyvalue_set(handle, key, value) == OkUnit
stub_keyvalue_get(handle, key) == OkBytes(<<1>>)
stub_keyvalue_keys(handle) == OkKeys(<<"key1">>)
stub_keyvalue_delete(handle, key) == OkUnit

\* WasmedgeLinkable::add_to_linker registers wasmedge_keyvalue's import
\* object, whose functions are the free functions above.
RegisteredSurface == "wasmedge"

----
\* State.

StubTarget == "handle#1"
Targets == Names \cup {StubTarget}

Never == [st |-> "never", val |-> NoBytes, by |-> 0]

\* The target a handle's calls are expected to act on.
Target(h) == IF surface = "wasmtime" THEN handles[h].name ELSE StubTarget

\* Published capability stores.  The Keyvalue's own implementor is
\* Keyvalue(Filesystem), so the fallback key is "keyvalue.filesystem".
StoreA ==
    (<<"mystore", "keyvalue">> :> BasicState("Keyvalue(Filesystem)"))
    @@ (<<"bad", "keyvalue">> :> BasicState("Messaging(Azsbus)"))
    @@ (<<"keyvalue.filesystem", "keyvalue">> :> BasicState("Messaging(Azsbus)"))

StoreB ==
    (<<"mystore", "keyvalue">> :> BasicState("Keyvalue(V1Redis)"))
    @@ (<<"ghost", "messaging">> :> BasicState("Messaging(Azsbus)"))

StoreC ==
    (<<"bad", "keyvalue">> :> BasicState("Messaging(Azsbus)"))
    @@ (<<"mystore", "keyvalue">> :> BasicState("Messaging(Azsbus)"))
    @@ (<<"ghost", "messaging">> :> BasicState("Messaging(Azsbus)"))
    @@ (<<"keyvalue.filesystem", "keyvalue">> :> BasicState("Keyvalue(V1Filesystem)"))

Stores == {StoreA, StoreB, StoreC}

NoCall ==
    [op |-> "none", name |-> "", h |-> 0, key |-> "", val |-> NoBytes,
     res |-> OkUnit, lookups |-> 0, calls |-> 0, inst |-> 0,
     consulted |-> <<>>, usedKey |-> "", cfail |-> FALSE, bfail |-> FALSE]

Init ==
    /\ surface \in {"wasmtime", "wasmedge"}
    /\ implementor = "Keyvalue(Filesystem)"
    /\ capability_store \in Stores
    /\ handles = <<>>
    /\ backing = [n \in Names |-> EmptyMap]
    /\ crashed = FALSE
    /\ issued = {}
    /\ hist = [t \in Targets |-> [k \in Keys |-> Never]]
    /\ dels = {}
    /\ last = NoCall

----
\* Calls through the trait implementation.

Open(name) ==
    /\ ~crashed
    /\ surface = "wasmtime"
    /\ Len(handles) < MaxHandles
    /\ \E ok \in BOOLEAN :
        LET r == keyvalue_open(capability_store, implementor, name, Len(handles) + 1, ok)
            s == ResourceToString(implementor)
            call == [NoCall EXCEPT !.op = "open", !.name = name,
                        !.lookups = r.lookups, !.consulted = r.consulted,
                        !.usedKey = r.usedKey, !.cfail = r.cfail]
        IN  /\ capability_store' = StoreAfterOpen(capability_store, name, s)
            /\ IF r.outcome = "ok"
               THEN /\ handles' = Append(handles, r.inner)
                    /\ issued' = issued \cup {Len(handles) + 1}
                    /\ crashed' = FALSE
                    /\ last' = [call EXCEPT !.res = OkHandle(Len(handles) + 1),
                                            !.h = Len(handles) + 1,
                                            !.inst = r.inner.keyvalue_implementor]
               ELSE /\ handles' = handles
                    /\ issued' = issued
                    /\ crashed' = TRUE
                    /\ last' = [call EXCEPT !.res = Err("panic")]
    /\ UNCHANGED <<surface, implementor, backing, hist, dels>>

Get(h, key) ==
    /\ ~crashed
    /\ surface = "wasmtime"
    /\ h \in issued
    /\ \E oks \in Outcomes :
        LET self_ == handles[h]
            r == keyvalue_get(backing[self_.name], key, oks)
        IN  last' = [NoCall EXCEPT !.op = "get", !.h = h, !.key = key,
                        !.res = r.res, !.calls = r.calls, !.lookups = r.lookups,
                        !.inst = self_.keyvalue_implementor, !.bfail = ~oks[1]]
    /\ UNCHANGED <<surface, implementor, capability_store, handles, backing,
                   crashed, issued, hist, dels>>

Set(h, key, value) ==
    /\ ~crashed
    /\ surface = "wasmtime"
    /\ h \in issued
    /\ \E oks \in Outcomes :
        LET self_ == handles[h]
            r == keyvalue_set(backing[self_.name], key, value, oks)
        IN  /\ backing' = [backing EXCEPT ![self_.name] = r.m]
            /\ hist' = IF r.res.tag = "ok"
                       THEN [hist EXCEPT ![Target(h)][key] =
                                [st |-> "set", val |-> value, by |-> h]]
                       ELSE hist
            /\ last' = [NoCall EXCEPT !.op = "set", !.h = h, !.key = key,
                            !.val = value, !.res = r.res, !.calls = r.calls, !.lookups = r.lookups,
                            !.inst = self_.keyvalue_implementor, !.bfail = ~oks[1]]
    /\ UNCHANGED <<surface, implementor, capability_store, handles, crashed,
                   issued, dels>>

KeysOf(h) ==
    /\ ~crashed
    /\ surface = "wasmtime"
    /\ h \in issued
    /\ \E oks \in Outcomes :
       \E order \in Orderings(DOMAIN backing[handles[h].name]) :
        LET self_ == handles[h]
            r == keyvalue_keys(backing[self_.name], order, oks)
        IN  last' = [NoCall EXCEPT !.op = "keys", !.h = h,
                        !.res = r.res, !.calls = r.calls, !.lookups = r.lookups,
                        !.inst = self_.keyvalue_implementor, !.bfail = ~oks[1]]
    /\ UNCHANGED <<surface, implementor, capability_store, handles, backing,
                   crashed, issued, hist, dels>>

Delete(h, key) ==
    /\ ~crashed
    /\ surface = "wasmtime"
    /\ h \in issued
    /\ \E oks \in Outcomes :
        LET self_ == handles[h]
            r == keyvalue_delete(backing[self_.name], key, oks)
        IN  /\ backing' = [backing EXCEPT ![self_.name] = r.m]
            /\ hist' = IF r.res.tag = "ok"
                       THEN [hist EXCEPT ![Target(h)][key] =
                                [st |-> "deleted", val |-> NoBytes, by |-> 0]]
                       ELSE hist
            /\ dels' = IF r.res.tag = "ok" THEN dels \cup {Target(h)} ELSE dels
            /\ last' = [NoCall EXCEPT !.op = "delete", !.h = h, !.key = key,
                            !.res = r.res, !.calls = r.calls, !.lookups = r.lookups,
                            !.inst = self_.keyvalue_implementor, !.bfail = ~oks[1]]
    /\ UNCHANGED <<surface, implementor, capability_store, handles, crashed, issued>>

----
\* Calls through the exported free functions.

StubOpen(name) ==
    /\ ~crashed
    /\ surface = "wasmedge"
    /\ LET r == stub_keyvalue_open(name)
       IN  /\ issued' = issued \cup {r.h}
           /\ last' = [NoCall EXCEPT !.op = "open", !.name = name, !.h = r.h, !.res = r]
    /\ UNCHANGED <<surface, implementor, capability_store, handles, backing,
                   crashed, hist, dels>>

StubGet(h, key) ==
    /\ ~crashed
    /\ surface = "wasmedge"
    /\ h \in issued
    /\ last' = [NoCall EXCEPT !.op = "get", !.h = h, !.key = key,
                    !.res = stub_keyvalue_get(h, key)]
    /\ UNCHANGED <<surface, implementor, capability_store, handles, backing,
                   crashed, issued, hist, dels>>

StubSet(h, key, value) ==
    /\ ~crashed
    /\ surface = "wasmedge"
    /\ h \in issued
    /\ LET r == stub_keyvalue_set(h, key, value)
       IN  /\ hist' = IF r.tag = "ok"
                      THEN [hist EXCEPT ![Target(h)][key] =
                               [st |-> "set", val |-> value, by |-> h]]
                      ELSE hist
           /\ last' = [NoCall EXCEPT !.op = "set", !.h = h, !.key = key,
                           !.val = value, !.res = r]
    /\ UNCHANGED <<surface, implementor, capability_store, handles, backing,
                   crashed, issued, dels>>

StubKeys(h) ==
    /\ ~crashed
    /\ surface = "wasmedge"
    /\ h \in issued
    /\ last' = [NoCall EXCEPT !.op = "keys", !.h = h, !.res = stub_keyvalue_keys(h)]
    /\ UNCHANGED <<surface, implementor, capability_store, handles, backing,
                   crashed, issued, hist, dels>>

StubDelete(h, key) ==
    /\ ~crashed
    /\ surface = "wasmedge"
    /\ h \in issued
    /\ LET r == stub_keyvalue_delete(h, key)
       IN  /\ hist' = IF r.tag = "ok"
                      THEN [hist EXCEPT ![Target(h)][key] =
                               [st |-> "deleted", val |-> NoBytes, by |-> 0]]
                      ELSE hist
           /\ dels' = IF r.tag = "ok" THEN dels \cup {Target(h)} ELSE dels
           /\ last' = [NoCall EXCEPT !.op = "delete", !.h = h, !.key = key, !.res = r]
    /\ UNCHANGED <<surface, implementor, capability_store, handles, backing,
                   crashed, issued>>

Handles == 1..MaxHandles

Next ==
    \/ \E n \in Names : Open(n)
    \/ \E h \in Handles, k \in Keys : Get(h, k)
    \/ \E h \in Handles, k \in Keys, v \in Values : Set(h, k, v)
    \/ \E h \in Handles : KeysOf(h)
    \/ \E h \in Handles, k \in Keys : Delete(h, k)
    \/ \E n \in Names : StubOpen(n)
    \/ \E h \in Handles, k \in Keys : StubGet(h, k)
    \/ \E h \in Handles, k \in Keys, v \in Values : StubSet(h, k, v)
    \/ \E h \in Handles : StubKeys(h)
    \/ \E h \in Handles, k \in Keys : StubDelete(h, k)

Spec == Init /\ [][Next]_vars

----
\* Properties.

\* The fallback key of keyvalue_open and whether a name has any entry.
FallbackKey == ResourceToString(implementor)
Configured(n) ==
    StoreHas(capability_store, n, "keyvalue")
        \/ StoreHas(capability_store, FallbackKey, "keyvalue")

\* Resource identities that name an enabled key-value backend.
KeyvalueResources == Resources \ {"Messaging(Azsbus)"}

TraitCall(ops) == surface = "wasmtime" /\ last.op \in ops
DataOps == {"get", "set", "keys", "delete"}

\* C1: an open of a name with no entry under the name and none under the
\* provider-identity string returns NotFound and does not abort the process.
C1_UnknownNameNotFound ==
    (TraitCall({"open"}) /\ ~Configured(last.name))
        => (last.res.tag = "NotFound" /\ ~crashed)

\* C2: an open whose selected configuration names a resource identity that
\* matches no enabled backend kind returns UnsupportedResource and does not
\* abort the process.
C2_UnsupportedResourceReturned ==
    (TraitCall({"open"}) /\ last.usedKey # ""
        /\ StoreGet(capability_store, last.usedKey, "keyvalue").implementor
               \notin KeyvalueResources)
        => (last.res.tag = "UnsupportedResource" /\ ~crashed)

\* C3: a get of key k whose backend call did not fail, issued when the last
\* successful set or delete of k was set(k, v), returns exactly v, on either
\* operation surface.
C3_RoundTrip ==
    (last.op = "get" /\ ~last.bfail /\ hist[Target(last.h)][last.key].st = "set")
        => last.res = OkBytes(hist[Target(last.h)][last.key].val)

\* C4 (as stated): handles opened under the same name hold the same backend
\* implementor instance, and a value set through one is read through the other.
SameName(h1, h2) == handles[h1].name = handles[h2].name

C4_ReadsOtherHandlesSet ==
    (TraitCall({"get"}) /\ hist[Target(last.h)][last.key].st = "set"
        /\ hist[Target(last.h)][last.key].by # last.h
        /\ SameName(hist[Target(last.h)][last.key].by, last.h))
        => /\ ~last.bfail => last.res = OkBytes(hist[Target(last.h)][last.key].val)
           /\ last.bfail => last.res = Err("BackendError")

C5_DeleteThenGetNotFound ==
    /\ (last.op = "delete" /\ ~last.bfail) => last.res = OkUnit
    /\ (last.op = "get" /\ ~last.bfail
            /\ hist[Target(last.h)][last.key].st = "deleted")
         => last.res = Err("NotFound")

\* C6: on a target that has seen no successful delete, a list_keys whose
\* backend call did not fail returns, as a set, exactly the keys that were
\* successfully set.
C6_KeysAreTheKeysSet ==
    (last.op = "keys" /\ ~last.bfail /\ Target(last.h) \notin dels)
        => /\ last.res.tag = "ok"
           /\ Range(last.res.keys)
                 = {k \in Keys : hist[Target(last.h)][k].st = "set"}

\* C7: open uses the entry under (name, "keyvalue") when it exists, else the
\* entry under (provider-identity string, "keyvalue") when that exists, else
\* none; it consults no other key, and a handle it returns is of the kind
\* the selected entry names.
C7_LookupOrder ==
    TraitCall({"open"})
        => /\ StoreHas(capability_store, last.name, "keyvalue")
                => last.usedKey = last.name
           /\ (~StoreHas(capability_store, last.name, "keyvalue")
                  /\ StoreHas(capability_store, FallbackKey, "keyvalue"))
                => last.usedKey = FallbackKey
           /\ ~Configured(last.name) => last.usedKey = ""
           /\ Range(last.consulted) \subseteq {last.name, FallbackKey}
           /\ last.res.tag = "ok"
                => handles[last.h].kind = KeyvalueImplementors_from(
                       StoreGet(capability_store, last.usedKey, "keyvalue").implementor)

C7_Witness ==
    /\ TraitCall({"open"})
    /\ last.name = "mystore"
    /\ StoreHas(capability_store, "mystore", "keyvalue")
    /\ StoreHas(capability_store, FallbackKey, "keyvalue")
    /\ last.usedKey = "mystore"
    /\ last.res.tag = "ok"

\* C8: no step of any call adds, removes or changes an entry of the
\* capability store.
C8_StoreNeverChanges == [][capability_store' = capability_store]_vars

C8_Witness ==
    /\ surface = "wasmtime"
    /\ capability_store = StoreC
    /\ Len(handles) = 2
    /\ last.op = "delete"
    /\ last.res = OkUnit

\* C9: an open whose backend construction fails returns
\* BackendConstructionError, produces no handle and leaves the process
\* running; every live handle holds a constructed implementor.
C9_ConstructionFailureReturned ==
    /\ (TraitCall({"open"}) /\ last.cfail)
         => (last.res.tag = "BackendConstructionError" /\ last.h = 0 /\ ~crashed)
    /\ \A h \in 1..Len(handles) : handles[h].keyvalue_implementor # 0

\* C10: a get, set, list_keys or delete through the trait implementation
\* calls the implementor held by its handle exactly once, looks nothing up in
\* the capability store, and returns the backend's failure when that one
\* call failed.
C10_ForwardsOnce ==
    TraitCall(DataOps)
        => /\ last.calls = 1
           /\ last.lookups = 0
           /\ last.inst = handles[last.h].keyvalue_implementor
           /\ last.bfail => last.res = Err("BackendError")

C10_Witness ==
    /\ TraitCall({"get"})
    /\ last.bfail
    /\ last.calls = 1
    /\ last.res = Err("BackendError")

====
